---------------------------- MODULE Spec2Model ----------------------------
(***************************************************************************)
(* Model of pileup/snp/row.go: the pileupRow record, the byte cursor       *)
(* cutAndAdvance, and the codec pair marshalPileupRow/unmarshalPileupRow.  *)
(*                                                                         *)
(* A Go slice is modelled as [data, len]: data is the backing array as     *)
(* seen from the slice's first element (so cap = Len(data)), len is the    *)
(* slice's length.  A []perReadFeatures is [isNil, elems], so that the nil *)
(* slice and an allocated slice of length 0 are different values.          *)
(* uint32 values are kept below 2^31 (TLC's integers are 32-bit signed);   *)
(* the codec does no arithmetic on them, it only splits them into bytes    *)
(* and joins them again.                                                   *)
(***************************************************************************)
EXTENDS Integers, Sequences, FiniteSets, TLC

VARIABLES
  pc,       \* position of the sequential caller / "conc" in the concurrent specification
  row,      \* the *pileupRow handed to marshalPileupRow
  scratch,  \* the scratch []byte as handed to marshalPileupRow (mres.scratch: after the call)
  mres,     \* what the marshalPileupRow call produced
  in,       \* the []byte handed to unmarshalPileupRow
  ures,     \* what the unmarshalPileupRow call produced
  heap,     \* concurrent specification: the byte buffers, by identity
  procs     \* concurrent specification: the two calls in flight

vars == <<pc, row, scratch, mres, in, ures, heap, procs>>

----------------------------------------------------------------------------
(* Bounds of the model *)

\* longest perRead list of an input row
MaxListLen == 2
\* how many bytes longer than needed the "longer" scratch buffer is
ExtraLen == 2

----------------------------------------------------------------------------
(* Constants of the program *)

fieldCounts == 1
fieldPerReadA == 2
fieldPerReadC == 4
fieldPerReadG == 8
fieldPerReadT == 16
fieldPerReadAny == fieldPerReadA + fieldPerReadC + fieldPerReadG + fieldPerReadT

\* package pileup: the base enumeration
BaseA == 0
BaseC == 1
BaseG == 2
BaseT == 3
BaseX == 4
NBase == 4
NBaseEnum == 5

----------------------------------------------------------------------------
(* Go primitives *)

RECURSIVE BitAnd(_, _)
\* x & m on non-negative integers
BitAnd(x, m) ==
  IF x = 0 \/ m = 0 THEN 0
  ELSE (x % 2) * (m % 2) + 2 * BitAnd(x \div 2, m \div 2)

\* 1 << b
Shl1(b) == 2 ^ b

\* binary.LittleEndian.PutUint32: the four bytes stored, lowest first
PutUint32(v) ==
  << v % 256, (v \div 256) % 256, (v \div 65536) % 256, (v \div 16777216) % 256 >>

\* binary.LittleEndian.Uint32 of a 4-byte window
Uint32(w) == w[1] + 256 * w[2] + 65536 * w[3] + 16777216 * w[4]

\* binary.LittleEndian.PutUint16
PutUint16(v) == << v % 256, (v \div 256) % 256 >>

\* binary.LittleEndian.Uint16 of a 2-byte window
Uint16(w) == w[1] + 256 * w[2]

\* the nil []byte
NilBytes == [data |-> << >>, len |-> 0]

\* make([]byte, n)
MakeBytes(n) == [data |-> [i \in 1..n |-> 0], len |-> n]

\* the nil []perReadFeatures
NilList == [isNil |-> TRUE, elems |-> << >>]

\* copy(data[lo:], w): the backing array with w stored at 0-based offset lo
PutAt(data, lo, w) ==
  [i \in 1..Len(data) |-> IF i > lo /\ i <= lo + Len(w) THEN w[i - lo] ELSE data[i]]

\* the zero pileupRow (what &pileupRow{} holds)
ZeroRow ==
  [fieldsPresent |-> 0, refID |-> 0, pos |-> 0,
   payload |-> [depth |-> 0,
                counts |-> [e \in 0..(NBaseEnum - 1) |-> [s \in 0..1 |-> 0]],
                perRead |-> [b \in 0..(NBase - 1) |-> NilList]]]

----------------------------------------------------------------------------
(* cutAndAdvance *)

\* faulty variant: the window is checked against len(s) instead of cap(s)
cutAndAdvanceByLen(offset, s, pieceLen) ==
  [panic  |-> offset > s.len \/ pieceLen > s.len - offset,
   lo     |-> offset,
   offset |-> offset + pieceLen]

\* cutAndAdvance(&offset, s, pieceLen): s[offset:] faults when offset > len(s),
\* tmpSlice[:pieceLen] faults when pieceLen > cap(tmpSlice) = cap(s) - offset;
\* otherwise the window starts at lo and the offset has advanced by pieceLen.
cutAndAdvance(offset, s, pieceLen) ==
  [panic  |-> offset > s.len \/ pieceLen > Len(s.data) - offset,
   lo     |-> offset,
   offset |-> offset + pieceLen]

----------------------------------------------------------------------------
(* marshalPileupRow *)

\* fieldsPresent&(fieldPerReadA<<uint(b)) != 0
marshalHasBase(fieldsPresent, b) ==
  BitAnd(fieldsPresent, fieldPerReadA * Shl1(b)) # 0

\* faulty variant: presence inferred from the list's content instead of the flag
marshalBaseReqByContent(pr, b) ==
  IF Len(pr.payload.perRead[b].elems) > 0 \/ marshalHasBase(pr.fieldsPresent, b)
  THEN 4 + 6 * Len(pr.payload.perRead[b].elems)
  ELSE 0

\* the contribution of perRead[b] to bytesReq
marshalBaseReq(pr, b) ==
  IF marshalHasBase(pr.fieldsPresent, b)
  THEN 4 + 6 * Len(pr.payload.perRead[b].elems)
  ELSE 0

RECURSIVE marshalSumReq(_, _)
\* the loop "for b := range pr.payload.perRead" of the length computation, from base b on
marshalSumReq(pr, b) ==
  IF b >= NBase THEN 0 ELSE marshalBaseReq(pr, b) + marshalSumReq(pr, b + 1)

\* bytesReq as computed up-front
bytesReq(pr) ==
  16
  + (IF BitAnd(pr.fieldsPresent, fieldCounts) # 0 THEN 40 ELSE 0)
  + (IF BitAnd(pr.fieldsPresent, fieldPerReadAny) # 0 THEN marshalSumReq(pr, 0) ELSE 0)

\* faulty variant: the test reads cap(t) instead of len(t)
marshalTargetByCap(s, req) ==
  IF Len(s.data) < req
  THEN [t |-> MakeBytes(req), allocs |-> 1, allocSize |-> req, reused |-> FALSE]
  ELSE [t |-> s, allocs |-> 0, allocSize |-> 0, reused |-> TRUE]

\* t := scratch; if len(t) < bytesReq { t = make([]byte, bytesReq) }
marshalTarget(s, req) ==
  IF s.len < req
  THEN [t |-> MakeBytes(req), allocs |-> 1, allocSize |-> req, reused |-> FALSE]
  ELSE [t |-> s, allocs |-> 0, allocSize |-> 0, reused |-> TRUE]

\* the 16 bytes put into tStart
marshalHeader(pr) ==
  PutUint32(pr.fieldsPresent) \o PutUint32(pr.refID) \o PutUint32(pr.pos)
    \o PutUint32(pr.payload.depth)

\* faulty variant: the G and T counters written in each other's place
marshalCountsSwapped(pr) ==
  PutUint32(pr.payload.counts[BaseA][0]) \o PutUint32(pr.payload.counts[BaseA][1])
    \o PutUint32(pr.payload.counts[BaseC][0]) \o PutUint32(pr.payload.counts[BaseC][1])
    \o PutUint32(pr.payload.counts[BaseT][0]) \o PutUint32(pr.payload.counts[BaseT][1])
    \o PutUint32(pr.payload.counts[BaseG][0]) \o PutUint32(pr.payload.counts[BaseG][1])
    \o PutUint32(pr.payload.counts[BaseX][0]) \o PutUint32(pr.payload.counts[BaseX][1])

\* the 40 bytes put into tCounts
marshalCounts(pr) ==
  PutUint32(pr.payload.counts[BaseA][0]) \o PutUint32(pr.payload.counts[BaseA][1])
    \o PutUint32(pr.payload.counts[BaseC][0]) \o PutUint32(pr.payload.counts[BaseC][1])
    \o PutUint32(pr.payload.counts[BaseG][0]) \o PutUint32(pr.payload.counts[BaseG][1])
    \o PutUint32(pr.payload.counts[BaseT][0]) \o PutUint32(pr.payload.counts[BaseT][1])
    \o PutUint32(pr.payload.counts[BaseX][0]) \o PutUint32(pr.payload.counts[BaseX][1])

\* faulty variant: qual and strand stored in each other's byte
marshalFeatureSwapped(src) ==
  PutUint16(src.dist5p) \o PutUint16(src.fraglen) \o << src.strand, src.qual >>

\* the 6 bytes put into dst for one perReadFeatures
marshalFeature(src) ==
  PutUint16(src.dist5p) \o PutUint16(src.fraglen) \o << src.qual, src.strand >>

\* the cuts made for perRead[b]: the length, then one per element
marshalBaseCuts(pr, b) ==
  IF marshalHasBase(pr.fieldsPresent, b)
  THEN << [kind |-> "len", b |-> b, bytes |-> PutUint32(Len(pr.payload.perRead[b].elems))] >>
       \o [i \in 1..Len(pr.payload.perRead[b].elems) |->
             [kind |-> "rec", b |-> b, bytes |-> marshalFeature(pr.payload.perRead[b].elems[i])]]
  ELSE << >>

RECURSIVE marshalListCuts(_, _)
\* the loop "for b := range pr.payload.perRead" of the writing part, from base b on
marshalListCuts(pr, b) ==
  IF b >= NBase THEN << >> ELSE marshalBaseCuts(pr, b) \o marshalListCuts(pr, b + 1)

\* every cutAndAdvance the call makes, in order, with the bytes stored in its window
marshalCuts(pr) ==
  << [kind |-> "header", b |-> 0, bytes |-> marshalHeader(pr)] >>
  \o (IF BitAnd(pr.fieldsPresent, fieldCounts) # 0
      THEN << [kind |-> "counts", b |-> 0, bytes |-> marshalCounts(pr)] >>
      ELSE << >>)
  \o (IF BitAnd(pr.fieldsPresent, fieldPerReadAny) # 0 THEN marshalListCuts(pr, 0) ELSE << >>)

RECURSIVE marshalWrite(_, _, _)
\* the cuts from the k-th on, applied to the cursor state st = [t, offset, panic]
marshalWrite(cuts, k, st) ==
  IF k > Len(cuts) \/ st.panic THEN st
  ELSE LET c == cutAndAdvance(st.offset, st.t, Len(cuts[k].bytes))
       IN  IF c.panic
           THEN [st EXCEPT !.panic = TRUE]
           ELSE marshalWrite(cuts, k + 1,
                  [t      |-> [st.t EXCEPT !.data = PutAt(@, c.lo, cuts[k].bytes)],
                   offset |-> c.offset,
                   panic  |-> FALSE])

\* faulty variant: the encoder drops the lists of the bases whose bit is unset from the row
marshalRowAfterTrim(pr) ==
  [pr EXCEPT !.payload.perRead =
     [b \in 0..(NBase - 1) |->
        IF marshalHasBase(pr.fieldsPresent, b) THEN pr.payload.perRead[b] ELSE NilList]]

\* the caller's row once the call has returned: pr := p.(*pileupRow) is the
\* caller's row itself, and no statement of the function stores through pr
marshalRowAfter(pr) == pr

\* marshalPileupRow(scratch, p): the slice returned, the error returned, the
\* allocation made, the final cursor, and the scratch buffer and row after the call
marshalPileupRow(s, pr) ==
  LET req == bytesReq(pr)
      tgt == marshalTarget(s, req)
      fin == marshalWrite(marshalCuts(pr), 1, [t |-> tgt.t, offset |-> 0, panic |-> FALSE])
  IN  [panic     |-> fin.panic,
       t         |-> fin.t,
       err       |-> "nil",
       allocs    |-> tgt.allocs,
       allocSize |-> tgt.allocSize,
       reused    |-> tgt.reused,
       offset    |-> fin.offset,
       scratch   |-> IF tgt.reused THEN fin.t ELSE s,
       row       |-> marshalRowAfter(pr)]

----------------------------------------------------------------------------
(* unmarshalPileupRow *)

\* faulty variant: the per-base test left out of the decoder's loop
unmarshalHasBaseAlways(fieldsPresent, b) == TRUE

\* pr.fieldsPresent&(fieldPerReadA<<uint(b)) != 0
unmarshalHasBase(fieldsPresent, b) ==
  BitAnd(fieldsPresent, fieldPerReadA * Shl1(b)) # 0

\* where the decoder goes once the bases below `from` are dealt with: the next
\* base whose bit is set, or the return when there is none (or no perRead bit at all)
unmarshalNextBase(fieldsPresent, from) ==
  LET S == {b \in from..(NBase - 1) : unmarshalHasBase(fieldsPresent, b)}
  IN  IF BitAnd(fieldsPresent, fieldPerReadAny) = 0 \/ S = {}
      THEN [phase |-> "done", b |-> NBase]
      ELSE [phase |-> "len", b |-> CHOOSE b \in S : \A c \in S : b <= c]

\* pr after the 16-byte window inStart is read
unmarshalHeader(w) ==
  [ZeroRow EXCEPT !.fieldsPresent = Uint32(SubSeq(w, 1, 4)),
                  !.refID = Uint32(SubSeq(w, 5, 8)),
                  !.pos = Uint32(SubSeq(w, 9, 12)),
                  !.payload.depth = Uint32(SubSeq(w, 13, 16))]

\* pr.payload.counts after the 40-byte window inCounts is read
unmarshalCounts(w) ==
  [e \in 0..(NBaseEnum - 1) |->
     [s \in 0..1 |->
        CASE e = BaseA -> Uint32(SubSeq(w, 1 + 4 * s, 4 + 4 * s))
          [] e = BaseC -> Uint32(SubSeq(w, 9 + 4 * s, 12 + 4 * s))
          [] e = BaseG -> Uint32(SubSeq(w, 17 + 4 * s, 20 + 4 * s))
          [] e = BaseT -> Uint32(SubSeq(w, 25 + 4 * s, 28 + 4 * s))
          [] e = BaseX -> Uint32(SubSeq(w, 33 + 4 * s, 36 + 4 * s))]]

\* newFeatures[i] after the 6-byte window src is read
unmarshalFeature(w) ==
  [dist5p |-> Uint16(SubSeq(w, 1, 2)), fraglen |-> Uint16(SubSeq(w, 3, 4)),
   qual |-> w[5], strand |-> w[6]]

\* faulty variant: nothing is allocated for a declared length of 0
unmarshalMakeLazy(curLen) ==
  IF curLen = 0 THEN NilList ELSE [isNil |-> FALSE, elems |-> << >>]

\* newFeatures := make([]perReadFeatures, curLen): an allocated list, never nil
unmarshalMake(curLen) == [isNil |-> FALSE, elems |-> << >>]

\* the decoder before its first cut.  made[b] is the length passed to make() for
\* base b (-1: no list was made).  A made list is held as the elements read so
\* far; its still-zero tail is seen by nobody (a fault discards the row).
unmarshalStart ==
  [phase |-> "header", b |-> 0, i |-> 0, n |-> 0, pr |-> ZeroRow,
   made |-> [b \in 0..(NBase - 1) |-> -1]]

\* pieceLen of the cut the decoder makes next
unmarshalPieceLen(st) ==
  CASE st.phase = "header" -> 16
    [] st.phase = "counts" -> 40
    [] st.phase = "len" -> 4
    [] st.phase = "rec" -> 6

\* the decoder after it has read the window w of its next cut
unmarshalStep(st, w) ==
  CASE st.phase = "header" ->
         LET pr == unmarshalHeader(w)
             nx == IF BitAnd(pr.fieldsPresent, fieldCounts) # 0
                   THEN [phase |-> "counts", b |-> 0]
                   ELSE unmarshalNextBase(pr.fieldsPresent, 0)
         IN  [st EXCEPT !.pr = pr, !.phase = nx.phase, !.b = nx.b]
    [] st.phase = "counts" ->
         LET nx == unmarshalNextBase(st.pr.fieldsPresent, 0)
         IN  [st EXCEPT !.pr.payload.counts = unmarshalCounts(w),
                        !.phase = nx.phase, !.b = nx.b]
    [] st.phase = "len" ->
         LET curLen == Uint32(w)
             nx == IF curLen = 0
                   THEN unmarshalNextBase(st.pr.fieldsPresent, st.b + 1)
                   ELSE [phase |-> "rec", b |-> st.b]
         IN  [st EXCEPT !.pr.payload.perRead[st.b] = unmarshalMake(curLen),
                        !.made[st.b] = curLen,
                        !.n = curLen, !.i = 0,
                        !.phase = nx.phase, !.b = nx.b]
    [] st.phase = "rec" ->
         LET nx == IF st.i + 1 < st.n
                   THEN [phase |-> "rec", b |-> st.b]
                   ELSE unmarshalNextBase(st.pr.fieldsPresent, st.b + 1)
         IN  [st EXCEPT !.pr.payload.perRead[st.b].elems = Append(@, unmarshalFeature(w)),
                        !.i = @ + 1,
                        !.phase = nx.phase, !.b = nx.b]

RECURSIVE unmarshalRun(_, _, _, _)
\* the decoder run to its return or to its fault; cuts lists every cut made
unmarshalRun(st, offset, s, cuts) ==
  IF st.phase = "done"
  THEN [panic |-> FALSE, err |-> "nil", pr |-> st.pr, made |-> st.made,
        offset |-> offset, cuts |-> cuts]
  ELSE LET n == unmarshalPieceLen(st)
           c == cutAndAdvance(offset, s, n)
           cut == [kind |-> st.phase, b |-> st.b, lo |-> offset, n |-> n]
       IN  IF c.panic
           THEN [panic |-> TRUE, err |-> "none", pr |-> ZeroRow, made |-> st.made,
                 offset |-> offset, cuts |-> Append(cuts, cut)]
           ELSE unmarshalRun(unmarshalStep(st, SubSeq(s.data, c.lo + 1, c.lo + n)),
                             c.offset, s, Append(cuts, cut))

\* unmarshalPileupRow(in)
unmarshalPileupRow(s) == unmarshalRun(unmarshalStart, 0, s, << >>)

----------------------------------------------------------------------------
(* The rows and buffers the calls are given *)

\* the byte a caller's buffer holds before the call writes to it
Garbage == 85

\* the i-th (from 1) feature of base b: variant 0 holds the small values of the
\* documented scenario, variant 1 values that fill both bytes of the 16-bit fields
InputFeature(v, b, i) ==
  IF v = 0
  THEN [dist5p |-> 10 + (i - 1), fraglen |-> 150 + b, qual |-> 30, strand |-> (i - 1) % 2]
  ELSE [dist5p |-> 258 + 1024 * b + i, fraglen |-> 65535 - i, qual |-> 200 + b, strand |-> i % 2]

\* a perRead list of n features; an empty one is nil in variant 0 and allocated in variant 1
InputList(v, b, n) ==
  IF n = 0 /\ v = 0 THEN NilList
  ELSE [isNil |-> FALSE, elems |-> [i \in 1..n |-> InputFeature(v, b, i)]]

\* the counts: variant 0 is counts[A]=(3,2) and zeros, variant 1 ten distinct 4-byte values
InputCounts(v) ==
  [e \in 0..(NBaseEnum - 1) |->
     [s \in 0..1 |->
        IF v = 0 THEN (IF e = BaseA THEN 3 - s ELSE 0)
        ELSE 16909060 + 65536 * e + 256 * s]]

\* a row with the given flags and list lengths
InputRow(fp, v, lens) ==
  [fieldsPresent |-> fp,
   refID |-> IF v = 0 THEN 7 ELSE 2147483647,
   pos |-> IF v = 0 THEN 100 ELSE 67305985,
   payload |-> [depth |-> IF v = 0 THEN 5 ELSE 134678021,
                counts |-> InputCounts(v),
                perRead |-> [b \in 0..(NBase - 1) |-> InputList(v, b, lens[b])]]]

\* every combination of the five flags, both variants, and every choice of the
\* lengths of the A, C and G lists (the T list is as long as the C list)
InputRows ==
  {InputRow(fp, v, [b \in 0..(NBase - 1) |-> IF b = 3 THEN lens[1] ELSE lens[b]]) :
     fp \in 0..(2 * fieldPerReadT - 1), v \in 0..1,
     lens \in [0..2 -> 0..MaxListLen]}

\* a caller's buffer of length n and capacity c, filled with Garbage
GarbageBytes(n, c) == [data |-> [i \in 1..c |-> Garbage], len |-> n]

\* the scratch buffers a caller may pass for a row: none, one byte short, empty
\* with enough capacity, exact, longer than needed
Scratches(pr) ==
  LET req == bytesReq(pr)
  IN  {NilBytes, GarbageBytes(req - 1, req - 1), GarbageBytes(0, req + ExtraLen),
       GarbageBytes(req, req), GarbageBytes(req + ExtraLen, req + ExtraLen)}

\* values of the variables a specification does not use
NoCall == [called |-> FALSE]
NoHeap == << >>
NoProcs == << >>

----------------------------------------------------------------------------
(* The sequential caller: encode a row, hand the bytes over, decode them *)

Init ==
  /\ pc = "start"
  /\ row \in InputRows
  /\ scratch \in Scratches(row)
  /\ mres = NoCall
  /\ in = NilBytes
  /\ ures = NoCall
  /\ heap = NoHeap
  /\ procs = NoProcs

\* one call marshalPileupRow(scratch, row)
Marshal ==
  /\ pc = "start"
  /\ mres' = marshalPileupRow(scratch, row)
  /\ row' = mres'.row
  /\ pc' = "marshalled"
  /\ UNCHANGED <<scratch, in, ures, heap, procs>>

\* the returned slice is what the reader later gets
Handoff ==
  /\ pc = "marshalled"
  /\ ~mres.panic
  /\ in' = mres.t
  /\ pc' = "stored"
  /\ UNCHANGED <<row, scratch, mres, ures, heap, procs>>

\* one call unmarshalPileupRow(in)
Unmarshal ==
  /\ pc = "stored"
  /\ ures' = unmarshalPileupRow(in)
  /\ pc' = "done"
  /\ UNCHANGED <<row, scratch, mres, in, heap, procs>>

Next == Marshal \/ Handoff \/ Unmarshal

Spec == Init /\ [][Next]_vars

----------------------------------------------------------------------------
(* The wire format as documented, stated without the cursor *)

\* whether the flag with value k (a power of two) is set in fp
FlagSet(fp, k) == (fp \div k) % 2 = 1

\* the flag of the perRead list of base b (0: A, 1: C, 2: G, 3: T)
BaseFlag(b) ==
  CASE b = 0 -> fieldPerReadA [] b = 1 -> fieldPerReadC
    [] b = 2 -> fieldPerReadG [] b = 3 -> fieldPerReadT

\* v as k little-endian bytes
LittleEndian(v, k) == [i \in 1..k |-> (v \div (256 ^ (i - 1))) % 256]

\* the bytes base b takes on the wire
WireBaseLen(pr, b) ==
  IF FlagSet(pr.fieldsPresent, BaseFlag(b)) THEN 4 + 6 * Len(pr.payload.perRead[b].elems) ELSE 0

\* 16 + 40*[Counts set] + the sum over the bases whose bit is set of 4 + 6*len
WireLen(pr) ==
  16 + (IF FlagSet(pr.fieldsPresent, fieldCounts) THEN 40 ELSE 0)
     + WireBaseLen(pr, 0) + WireBaseLen(pr, 1) + WireBaseLen(pr, 2) + WireBaseLen(pr, 3)

\* the offset at which base b's section starts
WireBaseOffset(pr, b) ==
  16 + (IF FlagSet(pr.fieldsPresent, fieldCounts) THEN 40 ELSE 0)
     + (IF b > 0 THEN WireBaseLen(pr, 0) ELSE 0)
     + (IF b > 1 THEN WireBaseLen(pr, 1) ELSE 0)
     + (IF b > 2 THEN WireBaseLen(pr, 2) ELSE 0)

\* one feature record: uint16 dist5p, uint16 fraglen, uint8 qual, uint8 strand
WireFeature(f) ==
  LittleEndian(f.dist5p, 2) \o LittleEndian(f.fraglen, 2) \o << f.qual >> \o << f.strand >>

RECURSIVE WireFeatures(_, _)
\* the records of list l from the i-th on
WireFeatures(l, i) ==
  IF i > Len(l) THEN << >> ELSE WireFeature(l[i]) \o WireFeatures(l, i + 1)

\* the section of base b: uint32 N, then the N records in list order
WireBase(pr, b) ==
  IF FlagSet(pr.fieldsPresent, BaseFlag(b))
  THEN LittleEndian(Len(pr.payload.perRead[b].elems), 4) \o WireFeatures(pr.payload.perRead[b].elems, 1)
  ELSE << >>

\* the counts block: A-fwd, A-rev, C-fwd, C-rev, G-fwd, G-rev, T-fwd, T-rev, X-fwd, X-rev
WireCounts(pr) ==
  LET c == pr.payload.counts
  IN  LittleEndian(c[0][0], 4) \o LittleEndian(c[0][1], 4) \o LittleEndian(c[1][0], 4)
        \o LittleEndian(c[1][1], 4) \o LittleEndian(c[2][0], 4) \o LittleEndian(c[2][1], 4)
        \o LittleEndian(c[3][0], 4) \o LittleEndian(c[3][1], 4) \o LittleEndian(c[4][0], 4)
        \o LittleEndian(c[4][1], 4)

\* the whole record
Wire(pr) ==
  LittleEndian(pr.fieldsPresent, 4) \o LittleEndian(pr.refID, 4) \o LittleEndian(pr.pos, 4)
    \o LittleEndian(pr.payload.depth, 4)
    \o (IF FlagSet(pr.fieldsPresent, fieldCounts) THEN WireCounts(pr) ELSE << >>)
    \o WireBase(pr, 0) \o WireBase(pr, 1) \o WireBase(pr, 2) \o WireBase(pr, 3)

\* the counts and lists of a row with every section whose bit is unset at its zero value
Effective(pr) ==
  [counts  |-> IF FlagSet(pr.fieldsPresent, fieldCounts) THEN pr.payload.counts
               ELSE ZeroRow.payload.counts,
   perRead |-> [b \in 0..3 |->
                  IF FlagSet(pr.fieldsPresent, BaseFlag(b)) THEN pr.payload.perRead[b].elems
                  ELSE << >>]]

\* field-by-field equality of two rows, unset sections comparing as zero
RowsEqual(a, b) ==
  /\ a.fieldsPresent = b.fieldsPresent
  /\ a.refID = b.refID
  /\ a.pos = b.pos
  /\ a.payload.depth = b.payload.depth
  /\ Effective(a) = Effective(b)

\* the row with the content of every unset section removed
ClearAbsent(pr) ==
  [pr EXCEPT !.payload.counts = Effective(pr).counts,
             !.payload.perRead = [b \in 0..3 |->
                IF FlagSet(pr.fieldsPresent, BaseFlag(b)) THEN pr.payload.perRead[b]
                ELSE NilList]]

\* the same buffer with every byte changed
Regarbage(s) == [s EXCEPT !.data = [i \in 1..Len(s.data) |-> 255 - s.data[i]]]

\* some section of the row is unset while holding content
HasStaleContent(pr) ==
  \/ ~FlagSet(pr.fieldsPresent, fieldCounts) /\ pr.payload.counts # ZeroRow.payload.counts
  \/ \E b \in 0..3 : ~FlagSet(pr.fieldsPresent, BaseFlag(b)) /\ Len(pr.payload.perRead[b].elems) > 0

----------------------------------------------------------------------------
(* Claims about the sequential caller *)

\* C1: decoding what marshalPileupRow returned gives back the row, field by
\* field and list element by list element, for every flag combination and every
\* scratch buffer; a section whose bit is unset compares as its zero value.
C1_RoundTrip ==
  pc = "done" => /\ ~ures.panic
                 /\ ures.err = "nil"
                 /\ RowsEqual(ures.pr, row)

\* C1 witness: a row with every flag set and two-element lists went through a
\* scratch buffer longer than needed and was decoded.
C1_Witness ==
  /\ pc = "done"
  /\ row.fieldsPresent = 31
  /\ \A b \in 0..3 : Len(row.payload.perRead[b].elems) = 2
  /\ scratch.len > WireLen(row)

\* C2: the slice marshalPileupRow returns has exactly the documented length,
\* whatever scratch buffer was supplied.
C2_ExactLength ==
  pc = "marshalled" => mres.t.len = WireLen(row)

\* C3: the first WireLen(row) bytes of the result are exactly the documented
\* wire layout, and they do not depend on what the scratch buffer held before.
C3_WireLayout ==
  pc = "marshalled" =>
    /\ ~mres.panic
    /\ Len(mres.t.data) >= WireLen(row)
    /\ SubSeq(mres.t.data, 1, WireLen(row)) = Wire(row)
    /\ SubSeq(marshalPileupRow(Regarbage(scratch), row).t.data, 1, WireLen(row)) = Wire(row)

\* C3 witness: a row with counts and three lists was written over a scratch
\* buffer that held other bytes.
C3_Witness ==
  /\ pc = "marshalled"
  /\ row.fieldsPresent = fieldCounts + fieldPerReadA + fieldPerReadG + fieldPerReadT
  /\ Len(row.payload.perRead[0].elems) = 2
  /\ Len(row.payload.perRead[2].elems) = 0
  /\ Len(row.payload.perRead[3].elems) = 1
  /\ row.refID = 2147483647
  /\ mres.reused
  /\ scratch.data[1] = Garbage

\* C4: a scratch buffer at least as long as required is the buffer returned and
\* nothing is allocated; otherwise exactly one buffer of exactly the required
\* size is allocated and the scratch buffer is left as it was.
C4_BufferReuse ==
  pc = "marshalled" =>
    IF scratch.len >= WireLen(row)
    THEN /\ mres.reused
         /\ mres.allocs = 0
         /\ mres.scratch = mres.t
    ELSE /\ ~mres.reused
         /\ mres.allocs = 1
         /\ mres.allocSize = WireLen(row)
         /\ Len(mres.t.data) = WireLen(row)
         /\ mres.scratch = scratch

\* C4 witness: an empty scratch buffer whose capacity would have sufficed led
\* to one allocation.
C4_Witness ==
  /\ pc = "marshalled"
  /\ scratch.len = 0
  /\ Len(scratch.data) > WireLen(row)
  /\ mres.allocs = 1

\* C5: content held by a section whose bit is unset adds no byte to the output:
\* the row encodes to the same slice as the row with that content removed, the
\* cursor ends where the documented length says, and the decoded row has the
\* section at its zero value.
C5_AbsentIndependence ==
  /\ pc = "marshalled" =>
       /\ mres.t = marshalPileupRow(scratch, ClearAbsent(row)).t
       /\ mres.offset = WireLen(ClearAbsent(row))
  /\ pc = "done" =>
       /\ ~FlagSet(row.fieldsPresent, fieldCounts) =>
            ures.pr.payload.counts = ZeroRow.payload.counts
       /\ \A b \in 0..3 :
            ~FlagSet(row.fieldsPresent, BaseFlag(b)) => ures.pr.payload.perRead[b] = NilList

\* C5 witness: a row whose unset counts block and unset base A hold content,
\* with another base present, was encoded and decoded.
C5_Witness ==
  /\ pc = "done"
  /\ row.fieldsPresent = fieldPerReadG
  /\ row.payload.counts # ZeroRow.payload.counts
  /\ Len(row.payload.perRead[0].elems) = 2
  /\ Len(row.payload.perRead[2].elems) = 1

\* C6: a base whose bit is set and whose list is empty is written as four zero
\* bytes and nothing else, and decodes to an allocated empty list with its bit
\* still set, unlike an absent base, whose list stays nil.
C6_ZeroLengthList ==
  pc = "done" =>
    \A b \in 0..3 :
      (FlagSet(row.fieldsPresent, BaseFlag(b)) /\ Len(row.payload.perRead[b].elems) = 0) =>
        /\ SubSeq(in.data, WireBaseOffset(row, b) + 1, WireBaseOffset(row, b) + 4) = <<0, 0, 0, 0>>
        /\ \A k \in 1..Len(marshalCuts(row)) :
             (marshalCuts(row)[k].b = b /\ marshalCuts(row)[k].kind \in {"len", "rec"}) =>
               /\ marshalCuts(row)[k].kind = "len"
               /\ marshalCuts(row)[k].bytes = <<0, 0, 0, 0>>
        /\ \E k \in 1..Len(ures.cuts) :
             ures.cuts[k] = [kind |-> "len", b |-> b, lo |-> WireBaseOffset(row, b), n |-> 4]
        /\ \A k \in 1..Len(ures.cuts) : ~(ures.cuts[k].kind = "rec" /\ ures.cuts[k].b = b)
        /\ FlagSet(ures.pr.fieldsPresent, BaseFlag(b))
        /\ ures.pr.payload.perRead[b] = [isNil |-> FALSE, elems |-> << >>]
        /\ ures.made[b] = 0

\* C6 witness: base C present with a nil list, base A absent, base G present
\* with content; the decoded C list is allocated and the decoded A list is nil.
C6_Witness ==
  /\ pc = "done"
  /\ row.fieldsPresent = fieldPerReadC + fieldPerReadG
  /\ row.payload.perRead[1] = NilList
  /\ Len(row.payload.perRead[2].elems) = 1
  /\ ~ures.pr.payload.perRead[1].isNil
  /\ ures.pr.payload.perRead[0].isNil

\* C8: a call of marshalPileupRow leaves every field of the row as it was and
\* returns a nil error without faulting.
C8_RowUntouched ==
  [][(pc = "start" /\ pc' = "marshalled") =>
       /\ row' = row
       /\ mres'.err = "nil"
       /\ ~mres'.panic]_vars

\* C8 witness: a row holding content in unset sections was encoded into a
\* reused scratch buffer.
C8_Witness ==
  /\ pc = "marshalled"
  /\ HasStaleContent(row)
  /\ row.fieldsPresent = fieldCounts + fieldPerReadT
  /\ mres.reused

\* the input with every byte from offset k on changed and two more appended
ChangeTail(s, k) ==
  [data |-> [i \in 1..(Len(s.data) + 2) |->
               IF i <= k THEN s.data[i] ELSE IF i <= Len(s.data) THEN 255 - s.data[i] ELSE 1],
   len  |-> s.len + 2]

\* the uint32 the input holds at offset k
DeclaredAt(s, k) ==
  s.data[k + 1] + 256 * s.data[k + 2] + 65536 * s.data[k + 3] + 16777216 * s.data[k + 4]

\* C9: on a long-enough input the decoder's cuts are contiguous from 0 (the
\* cursor only advances), none is made for a section whose bit is unset (which
\* stays zero), each present base gets a list of exactly the declared length,
\* the cursor ends at 16 + 40*[Counts] + sum of (4 + 6*N), bytes after that
\* offset do not change the row, and the encoder's cursor ended at the same offset.
C9_ExactReads ==
  pc = "done" =>
    LET fp == ures.pr.fieldsPresent
    IN  /\ ~ures.panic
        /\ ures.cuts[1].lo = 0
        /\ \A k \in 1..(Len(ures.cuts) - 1) :
             ures.cuts[k + 1].lo = ures.cuts[k].lo + ures.cuts[k].n
        /\ \A k \in 1..Len(ures.cuts) :
             /\ ures.cuts[k].kind = "counts" => FlagSet(fp, fieldCounts)
             /\ ures.cuts[k].kind \in {"len", "rec"} => FlagSet(fp, BaseFlag(ures.cuts[k].b))
        /\ ~FlagSet(fp, fieldCounts) => ures.pr.payload.counts = ZeroRow.payload.counts
        /\ \A b \in 0..3 :
             IF FlagSet(fp, BaseFlag(b))
             THEN /\ ures.made[b] = DeclaredAt(in, WireBaseOffset(ures.pr, b))
                  /\ Len(ures.pr.payload.perRead[b].elems) = ures.made[b]
             ELSE /\ ures.made[b] = -1
                  /\ ures.pr.payload.perRead[b] = NilList
        /\ ures.offset = WireLen(ures.pr)
        /\ ures.offset <= in.len
        /\ unmarshalPileupRow(ChangeTail(in, ures.offset)).pr = ures.pr
        /\ ures.offset = mres.offset

\* C9 witness: an input with bytes after the record, counts and base C present,
\* base A absent though the encoder's row held a list for it.
C9_Witness ==
  /\ pc = "done"
  /\ in.len > ures.offset
  /\ ures.pr.fieldsPresent = fieldCounts + fieldPerReadC
  /\ ures.made[1] = 2
  /\ Len(row.payload.perRead[0].elems) = 1

----------------------------------------------------------------------------
(* The reader of a cut-short record: encode a row, reslice the bytes, decode *)

\* every combination of the five flags, both variants, all four lists of one length
TruncRows ==
  {InputRow(fp, v, [b \in 0..(NBase - 1) |-> n]) :
     fp \in 0..(2 * fieldPerReadT - 1), v \in 0..1, n \in 0..MaxListLen}

InitTrunc ==
  /\ pc = "start"
  /\ row \in TruncRows
  /\ scratch = NilBytes
  /\ mres = NoCall
  /\ in = NilBytes
  /\ ures = NoCall
  /\ heap = NoHeap
  /\ procs = NoProcs

\* the reader gets the first k bytes of the record: as buf[:k], which keeps the
\* backing array (cap > len), or as a buffer of its own (cap = len)
Reslice(k, keepCap) ==
  /\ pc = "marshalled"
  /\ ~mres.panic
  /\ k \in 0..mres.t.len
  /\ in' = [data |-> IF keepCap THEN mres.t.data ELSE SubSeq(mres.t.data, 1, k), len |-> k]
  /\ pc' = "stored"
  /\ UNCHANGED <<row, scratch, mres, ures, heap, procs>>

NextTrunc ==
  \/ Marshal
  \/ \E k \in 0..(16 + 40 + NBase * (4 + 6 * MaxListLen)), keepCap \in BOOLEAN : Reslice(k, keepCap)
  \/ Unmarshal

SpecTrunc == InitTrunc /\ [][NextTrunc]_vars

\* the cut ends within the first n bytes
CutWithin(c, n) == c.lo + c.n <= n

\* C10 as claimed: unmarshalPileupRow never returns an error value; on an input
\* shorter than its flags and lengths imply it faults, at the first cut that
\* exceeds the buffer, and never returns a row; on an input long enough it
\* returns a row and a nil error.
C10_ShortInputFaults ==
  pc = "done" =>
    IF in.len < WireLen(row)
    THEN /\ ures.panic
         /\ ~CutWithin(ures.cuts[Len(ures.cuts)], in.len)
         /\ \A k \in 1..(Len(ures.cuts) - 1) : CutWithin(ures.cuts[k], in.len)
    ELSE /\ ~ures.panic
         /\ ures.err = "nil"

\* C10 as amended: unmarshalPileupRow validates nothing and never returns an
\* error value.  It faults exactly at the first cut that starts past the
\* input's length or ends past its capacity, and returns a row and a nil error
\* when there is no such cut.  So an input long enough always yields its row; a
\* short input whose capacity equals its length faults at the first cut that
\* exceeds it; a short input with spare capacity is read into that capacity.
C10_FaultsPastCapacity ==
  pc = "done" =>
    LET cap == Len(in.data)
        ok(c) == c.lo <= in.len /\ c.lo + c.n <= cap
        last == ures.cuts[Len(ures.cuts)]
    IN  /\ ures.err \in {"nil", "none"}
        /\ ures.panic <=> ures.err = "none"
        /\ \A k \in 1..(Len(ures.cuts) - 1) : ok(ures.cuts[k])
        /\ ures.panic <=> ~ok(last)
        /\ in.len >= WireLen(row) => ~ures.panic /\ RowsEqual(ures.pr, row)
        /\ (in.len < WireLen(row) /\ cap = in.len) =>
             /\ ures.panic
             /\ ~CutWithin(last, in.len)
             /\ \A k \in 1..(Len(ures.cuts) - 1) : CutWithin(ures.cuts[k], in.len)

\* C10 witness: an input shorter than its content, resliced from a longer
\* buffer, was decoded into a row without a fault.
C10_Witness ==
  /\ pc = "done"
  /\ in.len < WireLen(row)
  /\ in.len >= 16
  /\ Len(in.data) > in.len
  /\ ~ures.panic
  /\ ures.err = "nil"

----------------------------------------------------------------------------
(* Two calls in flight at once, one byte store or load per step *)

\* longest perRead list of a row of the concurrent calls
MaxConcLen == 1

\* a feature whose bytes are all below 128, so that any mix of bytes a racing
\* reader can see still joins to a value below 2^31
ConcFeature(i) == [dist5p |-> 10 + i, fraglen |-> 100, qual |-> 30, strand |-> 1]

ConcList(n) == [isNil |-> FALSE, elems |-> [i \in 1..n |-> ConcFeature(i)]]

\* the rows the calls encode: 0 has no list; 1 has base A with MaxConcLen
\* features; 2 has base A empty and base C with one feature; 3 (held by the
\* caller's buffer b2, the longest record) has base C with one feature more
ConcRow(r) ==
  CASE r = 0 -> [ZeroRow EXCEPT !.refID = 7]
    [] r = 1 -> [ZeroRow EXCEPT !.fieldsPresent = fieldPerReadA, !.refID = 8,
                                !.payload.perRead[0] = ConcList(MaxConcLen)]
    [] r = 2 -> [ZeroRow EXCEPT !.fieldsPresent = fieldPerReadA + fieldPerReadC, !.refID = 9,
                                !.payload.perRead[0] = ConcList(0),
                                !.payload.perRead[1] = ConcList(1)]
    [] r = 3 -> [ZeroRow EXCEPT !.fieldsPresent = fieldPerReadA + fieldPerReadC, !.refID = 9,
                                !.payload.perRead[0] = ConcList(0),
                                !.payload.perRead[1] = ConcList(MaxConcLen + 1)]

\* the callers' buffers b1 and b2 each hold a record; n1 and n2 are the buffers
\* the two calls may allocate
ConcInitHeap ==
  [id \in {"b1", "b2", "n1", "n2"} |->
     CASE id = "b1" -> marshalPileupRow(NilBytes, ConcRow(1)).t
       [] id = "b2" -> marshalPileupRow(NilBytes, ConcRow(3)).t
       [] OTHER -> NilBytes]

\* the buffer with identity id ("nil": the nil slice)
ConcBuf(h, id) == IF id = "nil" THEN NilBytes ELSE h[id]

\* faulty variant: every call allocates the same package-level buffer
ConcFreshShared(p) == "n1"

\* make([]byte, bytesReq) gives each call a buffer of its own
ConcFresh(p) == IF p = 1 THEN "n1" ELSE "n2"

\* a call before its first step
ConcCall(kind, pr, buf) ==
  [kind |-> kind, row |-> pr, buf |-> buf, pc |-> "start", t |-> buf,
   k |-> 1, j |-> 0, offset |-> 0, st |-> unmarshalStart, w |-> << >>,
   result |-> NoCall]

\* the calls that can be made, numbered: an encode of row 0, 1 or 2 with no
\* scratch or with a caller's buffer as scratch (0..8), a decode of a caller's
\* buffer (9, 10)
ConcCallAt(i) ==
  IF i < 9
  THEN ConcCall("enc", ConcRow(i \div 3),
                CASE i % 3 = 0 -> "nil" [] i % 3 = 1 -> "b1" [] i % 3 = 2 -> "b2")
  ELSE ConcCall("dec", ZeroRow, IF i = 9 THEN "b1" ELSE "b2")

InitConc ==
  /\ pc = "conc"
  /\ row = ZeroRow
  /\ scratch = NilBytes
  /\ mres = NoCall
  /\ in = NilBytes
  /\ ures = NoCall
  /\ heap = ConcInitHeap
  /\ \E i \in 0..10, j \in 0..10 :
       /\ i <= j  \* the two calls are interchangeable: each pair is taken once
       /\ procs = [p \in 1..2 |-> IF p = 1 THEN ConcCallAt(i) ELSE ConcCallAt(j)]

\* the call begins: an encode computes bytesReq and picks or allocates t
Start(p) ==
  /\ procs[p].pc = "start"
  /\ LET c == procs[p]
         tgt == marshalTarget(ConcBuf(heap, c.buf), bytesReq(c.row))
     IN  IF c.kind = "enc" /\ ~tgt.reused
         THEN /\ heap' = [heap EXCEPT ![ConcFresh(p)] = tgt.t]
              /\ procs' = [procs EXCEPT ![p].pc = "run", ![p].t = ConcFresh(p)]
         ELSE /\ heap' = heap
              /\ procs' = [procs EXCEPT ![p].pc = "run"]
  /\ UNCHANGED <<pc, row, scratch, mres, in, ures>>

\* an encode stores the next byte of its current window (the cut is made
\* before the window's first byte)
EncByte(p) ==
  /\ procs[p].kind = "enc"
  /\ procs[p].pc = "run"
  /\ procs[p].k <= Len(marshalCuts(procs[p].row))
  /\ LET c == procs[p]
         bytes == marshalCuts(c.row)[c.k].bytes
         cut == cutAndAdvance(c.offset, heap[c.t], Len(bytes))
     IN  IF cut.panic
         THEN /\ heap' = heap
              /\ procs' = [procs EXCEPT ![p].pc = "fault",
                                        ![p].result = [fault |-> TRUE, val |-> NoCall]]
         ELSE /\ heap' = [heap EXCEPT ![c.t].data[cut.lo + c.j + 1] = bytes[c.j + 1]]
              /\ procs' = IF c.j + 1 = Len(bytes)
                          THEN [procs EXCEPT ![p].k = @ + 1, ![p].j = 0,
                                             ![p].offset = cut.offset]
                          ELSE [procs EXCEPT ![p].j = @ + 1]
  /\ UNCHANGED <<pc, row, scratch, mres, in, ures>>

\* an encode returns t
EncReturn(p) ==
  /\ procs[p].kind = "enc"
  /\ procs[p].pc = "run"
  /\ procs[p].k > Len(marshalCuts(procs[p].row))
  /\ procs' = [procs EXCEPT ![p].pc = "done",
                            ![p].result = [fault |-> FALSE, val |-> heap[procs[p].t]]]
  /\ UNCHANGED <<pc, row, scratch, mres, in, ures, heap>>

\* a decode loads the next byte of its current window
DecByte(p) ==
  /\ procs[p].kind = "dec"
  /\ procs[p].pc = "run"
  /\ procs[p].st.phase # "done"
  /\ LET c == procs[p]
         n == unmarshalPieceLen(c.st)
         cut == cutAndAdvance(c.offset, heap[c.buf], n)
         w == Append(c.w, heap[c.buf].data[cut.lo + Len(c.w) + 1])
     IN  IF cut.panic
         THEN procs' = [procs EXCEPT ![p].pc = "fault",
                                     ![p].result = [fault |-> TRUE, val |-> NoCall]]
         ELSE procs' = IF Len(w) = n
                       THEN [procs EXCEPT ![p].st = unmarshalStep(c.st, w),
                                          ![p].offset = cut.offset, ![p].w = << >>]
                       ELSE [procs EXCEPT ![p].w = w]
  /\ UNCHANGED <<pc, row, scratch, mres, in, ures, heap>>

\* a decode returns pr
DecReturn(p) ==
  /\ procs[p].kind = "dec"
  /\ procs[p].pc = "run"
  /\ procs[p].st.phase = "done"
  /\ procs' = [procs EXCEPT ![p].pc = "done",
                            ![p].result = [fault |-> FALSE, val |-> procs[p].st.pr]]
  /\ UNCHANGED <<pc, row, scratch, mres, in, ures, heap>>

NextConc ==
  \E p \in 1..2 : Start(p) \/ EncByte(p) \/ EncReturn(p) \/ DecByte(p) \/ DecReturn(p)

SpecConc == InitConc /\ [][NextConc]_vars

\* what call c returns when it runs alone on the initial buffers
Alone(c) ==
  IF c.kind = "enc"
  THEN LET m == marshalPileupRow(ConcBuf(ConcInitHeap, c.buf), c.row)
       IN  [fault |-> m.panic, val |-> IF m.panic THEN NoCall ELSE m.t]
  ELSE LET u == unmarshalPileupRow(ConcInitHeap[c.buf])
       IN  [fault |-> u.panic, val |-> IF u.panic THEN NoCall ELSE u.pr]

\* the call has ended
Ended(c) == c.pc \in {"done", "fault"}

\* the call ended with another result than it has alone
Corrupted(c) == Ended(c) /\ c.result # Alone(c)

\* the two calls were given different buffers (or none)
DisjointBuffers == procs[1].buf # procs[2].buf \/ procs[1].buf = "nil"

\* the encode call c writes into the caller's buffer it was given
WritesItsBuffer(c) ==
  c.kind = "enc" /\ c.buf # "nil" /\ ConcInitHeap[c.buf].len >= WireLen(c.row)

============================================================================
